---- MODULE Spec2Model ----
(***************************************************************************)
(* Model of llm-as-a-teacher: the Repository Acquirer (git_handler.py), its *)
(* two callers (main.py, app.py), the Identifier Resolver and the Response  *)
(* Normalizer (evaluator.py).                                               *)
(*                                                                          *)
(* Spec          one evaluation request, driven by main() or                *)
(*               evaluate_project(), every statement one step.              *)
(* SpecInstance  one GitHandler instance driven by an arbitrary client that *)
(*               calls get_repository_info and cleanup in any order.        *)
(* SpecUrl       _parse_github_url applied to every form of a URL.          *)
(* SpecNorm      _parse_response applied to a set of replies.               *)
(* SpecContent   the content of one file record, as each strategy stores it.*)
(***************************************************************************)
EXTENDS Integers, Sequences, FiniteSets, TLC

VARIABLES
    caller,        \* "main" | "app" | "client": who drives the GitHandler
    git_url,       \* the URL passed to get_repository_info (sequence of characters)
    github_token,  \* GitHandler.github_token is set (os.getenv('GITHUB_TOKEN'))
    pc,            \* position of the single sequential flow
    temp_dir,      \* GitHandler.temp_dir: None or a directory id
    disk,          \* temporary directories that exist on local storage
    stack,         \* call stack of _extract_files_info: one frame per active call
    scan,          \* _scan_repository loop state
    repo_info,     \* value returned by get_repository_info (NoSnap = None)
    exc,           \* exception propagating to the caller, "none" if none
    calls,         \* how often each operation was invoked (api, clone: by the
                   \* current get_repository_info call), and which steps of
                   \* the current call failed
    outcome,       \* what the request reports to the user
    last,          \* last GitHandler method completed, with its effect
    parsed,        \* (owner, repo) returned by _parse_github_url
    url_parts,     \* the owner, the repo and the form git_url was written from
    response,      \* the raw reply handed to _parse_response
    result,        \* what _parse_response returned or raised
    file_text,     \* the text of one file, as fetched or as read from disk
    content        \* the 'content' field of the record stored for it

\* the variables of the Response Normalizer, the resolver's input and the
\* content of one file record
pureVars == <<url_parts, response, result, file_text, content>>

vars == <<caller, git_url, github_token, pc, temp_dir, disk, stack, scan,
          repo_info, exc, calls, outcome, last, parsed, pureVars>>

(***************************************************************************)
(* Bounds                                                                   *)
(***************************************************************************)
\* max_files of _extract_files_info and _scan_repository (default 50), scaled down
MaxFiles == 2
\* longest directory listing the API returns
MaxListing == 2
\* deepest nesting of directories the API returns
MaxDepth == 2
\* most entries rglob yields
MaxScanEntries == 3
\* the size cap of a file's content (50000 in the source), scaled down
ContentCap == 3
\* most get_repository_info calls a client makes on one instance
MaxCalls == 2
\* most cleanup calls a client makes on one instance
MaxCleanups == 2
\* API requests are counted up to this number
MaxApiCount == 2

None == 0

(***************************************************************************)
(* Strings are sequences of one-character strings.                          *)
(***************************************************************************)
GithubCom == <<"g", "i", "t", "h", "u", "b", ".", "c", "o", "m">>
DotGit == <<".", "g", "i", "t">>
Https == <<"h", "t", "t", "p", "s", ":", "/", "/">>

(***************************************************************************)
(* Identifier Resolver: GitHandler._parse_github_url                        *)
(***************************************************************************)
RECURSIVE NonSlashRun(_, _)
\* length of the longest match of [^/]* in s from position i
NonSlashRun(s, i) ==
    IF i > Len(s) \/ s[i] = "/" THEN 0 ELSE 1 + NonSlashRun(s, i + 1)

\* the literal lit occurs in s at position i
StartsAt(s, lit, i) ==
    /\ i + Len(lit) - 1 <= Len(s)
    /\ SubSeq(s, i, i + Len(lit) - 1) = lit

\* start of group 1 when the pattern head is tried at position p
OwnerStart(p) == p + Len(GithubCom) + 1

\* start of group 2
RepoStart(s, p) == OwnerStart(p) + NonSlashRun(s, OwnerStart(p)) + 1

\* github\.com[:/]([^/]+)/ matches s from position p
HeadMatch(s, p) ==
    /\ StartsAt(s, GithubCom, p)
    /\ p + Len(GithubCom) <= Len(s)
    /\ s[p + Len(GithubCom)] \in {":", "/"}
    /\ NonSlashRun(s, OwnerStart(p)) >= 1
    /\ OwnerStart(p) + NonSlashRun(s, OwnerStart(p)) <= Len(s)

\* what (?:\.git)?/?$ can match
StrictTails == {<< >>, DotGit, <<"/">>, DotGit \o <<"/">>}

\* lengths of group 2 for which ([^/]+?)(?:\.git)?/?$ matches from RepoStart
StrictLens(s, p) ==
    {k \in 1..NonSlashRun(s, RepoStart(s, p)) :
        SubSeq(s, RepoStart(s, p) + k, Len(s)) \in StrictTails}

\* lengths of group 2 for which ([^/]+?)(?:/.*)?$ matches from RepoStart
LooseLens(s, p) ==
    {k \in 1..NonSlashRun(s, RepoStart(s, p)) :
        \/ RepoStart(s, p) + k > Len(s)
        \/ s[RepoStart(s, p) + k] = "/"}

SetMin(S) == CHOOSE x \in S : \A y \in S : x <= y

RECURSIVE RStripSlash(_)
\* str.rstrip('/')
RStripSlash(s) ==
    IF Len(s) > 0 /\ s[Len(s)] = "/" THEN RStripSlash(SubSeq(s, 1, Len(s) - 1)) ELSE s

\* match.group(1), match.group(2).rstrip('/') of the leftmost match whose
\* lazy group 2 has one of the lengths lens(s, p)
Groups(s, p, k) ==
    [matched |-> TRUE,
     owner |-> SubSeq(s, OwnerStart(p), RepoStart(s, p) - 2),
     repo |-> RStripSlash(SubSeq(s, RepoStart(s, p), RepoStart(s, p) + k - 1))]

StrictStarts(s) == {p \in 1..Len(s) : HeadMatch(s, p) /\ StrictLens(s, p) # {}}
LooseStarts(s) == {p \in 1..Len(s) : HeadMatch(s, p) /\ LooseLens(s, p) # {}}

\* return None, None
NoMatch == [matched |-> FALSE, owner |-> << >>, repo |-> << >>]

\* _parse_github_url: the first pattern that matches wins
ParseGithubUrl(url) ==
    IF StrictStarts(url) # {}
    THEN Groups(url, SetMin(StrictStarts(url)),
                SetMin(StrictLens(url, SetMin(StrictStarts(url)))))
    ELSE IF LooseStarts(url) # {}
    THEN Groups(url, SetMin(LooseStarts(url)),
                SetMin(LooseLens(url, SetMin(LooseStarts(url)))))
    ELSE NoMatch

\* get_repository_info: "if not owner or not repo"
InvalidUrlNever(pr) == FALSE
InvalidUrl(pr) == ~pr.matched \/ pr.owner = << >> \/ pr.repo = << >>

(***************************************************************************)
(* Repository Acquirer: GitHandler                                          *)
(***************************************************************************)
\* what the environment can raise inside the API and clone paths; all of
\* them are subclasses of Exception
ExceptionSubclasses ==
    {"ConnectionError", "Timeout", "KeyError", "OSError",
     "CalledProcessError", "TimeoutExpired", "FileNotFoundError"}

\* get_repository_info returned None
NoSnap == [source |-> "none", nfiles |-> 0, local_path |-> None]

\* _scan_repository is not running: files_info empty, no entry looked at
NoScan == [n |-> 0, seen |-> 0]

\* the dictionary _get_repo_via_api returns
ApiSnap(n) == [source |-> "api", nfiles |-> n, local_path |-> None]

\* the dictionary _get_repo_via_clone returns; local_path lies in temp_dir
CloneSnap(n, td) == [source |-> "clone", nfiles |-> n, local_path |-> td]

\* entries of a contents listing: a file, a directory, an entry without the
\* 'type' field
ItemKinds == {"file", "dir", "bad"}

\* the listings a contents request can return
Listings == UNION {[1..n -> ItemKinds] : n \in 0..MaxListing}

\* contents[:max_files]
Take(s, n) == SubSeq(s, 1, IF Len(s) < n THEN Len(s) ELSE n)

\* a new call of _extract_files_info(contents, ..., max_files)
Frame(contents, max_files) ==
    [items |-> Take(contents, max_files), max_files |-> max_files, n |-> 0]

\* "if not self.github_token: return None"
ApiSkippedNever(token) == FALSE
ApiSkipped(token) == ~token

\* _get_repo_via_api: "except Exception"
ApiExceptNever(e) == FALSE
ApiExcept(e) == e \in ExceptionSubclasses

\* _get_repo_via_clone: "except Exception as e"
CloneExceptOnlyExit(e) == e = "CalledProcessError"
CloneExcept(e) == e \in ExceptionSubclasses

\* the budget handed to the recursive call: max_files - len(files_info)
DirBudget(max_files, n) == max_files - n

\* "elif item['type'] == 'dir' and len(files_info) < max_files"
DirEntered(max_files, n) == n < max_files

\* _scan_repository: "if len(files_info) >= max_files: break"
ScanBreak(n, max_files) == n >= max_files

\* "self.temp_dir = tempfile.mkdtemp(...)": the attribute after the call
MkdtempLocal(old, new) == old
MkdtempStore(old, new) == new

\* cleanup(): the condition is evaluated left to right; Path(None) raises
\* TypeError, shutil.rmtree(..., ignore_errors=True) does not raise
CleanupUnguarded(td, dsk) ==
    IF td = None THEN [raised |-> TRUE, disk |-> dsk]
    ELSE [raised |-> FALSE, disk |-> dsk \ {td}]
Cleanup(td, dsk) ==
    IF td # None /\ td \in dsk
    THEN [raised |-> FALSE, disk |-> dsk \ {td}]
    ELSE [raised |-> FALSE, disk |-> dsk]

\* where control goes when the try block of main()/evaluate_project() that
\* follows GitHandler() is left by "return" or by "raise"
TryExitNoFinally(kind) == IF kind = "raise" THEN "except" ELSE "finally"
TryExit(kind) == "finally"

Inc(f) == [calls EXCEPT ![f] = IF f = "api" /\ @ >= MaxApiCount THEN @ ELSE @ + 1]

\* the counters c, with a failure of step stage of the current call recorded
Fail(stage, c) == [c EXCEPT !.fails = @ \cup {stage}]

\* one more GitHandler method has completed
Done(op, raised) ==
    [op |-> op, raised |-> raised,
     streak |-> IF op = "cleanup" /\ last.op = "cleanup" THEN last.streak + 1 ELSE 1]

Top == stack[Len(stack)]
Pop == SubSeq(stack, 1, Len(stack) - 1)
SetTop(f) == [stack EXCEPT ![Len(stack)] = f]

\* an exception leaves get_repository_info
RaiseTarget == IF caller = "client" THEN "idle" ELSE TryExit("raise")

\* get_repository_info hands v back to its caller
Return(v) ==
    /\ repo_info' = v
    /\ pc' = "gri_return"
    /\ last' = Done("gri", FALSE)

\* an exception e raised on the API path reaches "except Exception" of
\* _get_repo_via_api, which returns None; get_repository_info goes on to clone
ApiFails(e) ==
    IF ApiExcept(e)
    THEN pc' = "clone_mkdtemp" /\ UNCHANGED <<exc, last>>
    ELSE pc' = RaiseTarget /\ exc' = e /\ last' = Done("gri", TRUE)

\* an exception e raised on the clone path reaches "except Exception" of
\* _get_repo_via_clone, which returns None
CloneFails(e) ==
    IF CloneExcept(e)
    THEN Return(NoSnap) /\ UNCHANGED exc
    ELSE /\ pc' = RaiseTarget /\ exc' = e /\ last' = Done("gri", TRUE)
         /\ UNCHANGED repo_info

\* owner, repo = self._parse_github_url(git_url); raise ValueError if invalid
GriParseUrl ==
    /\ pc = "gri_parse"
    /\ parsed' = ParseGithubUrl(git_url)
    /\ IF InvalidUrl(parsed')
       THEN pc' = RaiseTarget /\ exc' = "ValueError"
            /\ last' = Done("gri", TRUE)
       ELSE pc' = "api_check" /\ UNCHANGED <<exc, last>>
    /\ UNCHANGED <<pureVars, caller, git_url, github_token, temp_dir, disk, stack, scan,
                   repo_info, calls, outcome>>

\* _get_repo_via_api: the credential check
ApiCheck ==
    /\ pc = "api_check"
    /\ pc' = IF ApiSkipped(github_token) THEN "clone_mkdtemp" ELSE "api_meta"
    /\ UNCHANGED <<pureVars, caller, git_url, github_token, temp_dir, disk, stack, scan,
                   repo_info, exc, calls, outcome, last, parsed>>

\* requests.get(api_url): the repository-metadata request
ApiMeta(resp) ==
    /\ pc = "api_meta"
    /\ calls' = IF resp = "200" THEN Inc("api") ELSE Fail("meta", Inc("api"))
    /\ CASE resp = "200" -> pc' = "api_contents" /\ UNCHANGED <<exc, last>>
         [] resp = "non200" -> pc' = "clone_mkdtemp" /\ UNCHANGED <<exc, last>>
         [] OTHER -> ApiFails(resp)
    /\ UNCHANGED <<pureVars, caller, git_url, github_token, temp_dir, disk, stack, scan,
                   repo_info, outcome, parsed>>

\* requests.get(contents_url) with a 200 reply: the walk starts
ApiContentsListed(listing) ==
    /\ pc = "api_contents"
    /\ calls' = Inc("api")
    /\ stack' = <<Frame(listing, MaxFiles)>>
    /\ pc' = "walk"
    /\ UNCHANGED <<pureVars, caller, git_url, github_token, temp_dir, disk, scan,
                   repo_info, exc, outcome, last, parsed>>

\* requests.get(contents_url) with another status: files_info stays []
\* and the API snapshot is returned; or the request raises
ApiContentsFailed(resp) ==
    /\ pc = "api_contents"
    /\ calls' = Fail("contents", Inc("api"))
    /\ IF resp = "non200"
       THEN Return(ApiSnap(0)) /\ UNCHANGED exc
       ELSE ApiFails(resp) /\ UNCHANGED repo_info
    /\ UNCHANGED <<pureVars, caller, git_url, github_token, temp_dir, disk, stack, scan,
                   outcome, parsed>>

\* _extract_files_info, a file: skipped when _is_code_file(name) is false
\* (resp = "nocode"), else fetched, and appended on status 200
WalkFile(resp) ==
    /\ pc = "walk" /\ Top.items # << >> /\ Head(Top.items) = "file"
    /\ calls' = CASE resp = "nocode" -> calls
                  [] resp = "200" -> Inc("api")
                  [] OTHER -> Fail("entry", Inc("api"))
    /\ stack' = SetTop([Top EXCEPT !.items = Tail(@),
                                    !.n = IF resp = "200" THEN @ + 1 ELSE @])
    /\ UNCHANGED <<pureVars, caller, git_url, github_token, pc, temp_dir, disk, scan,
                   repo_info, exc, outcome, last, parsed>>

\* a directory met when files_info is full: no request is made
WalkSkip ==
    /\ pc = "walk" /\ Top.items # << >>
    /\ Head(Top.items) = "dir" /\ ~DirEntered(Top.max_files, Top.n)
    /\ stack' = SetTop([Top EXCEPT !.items = Tail(@)])
    /\ UNCHANGED <<pureVars, caller, git_url, github_token, pc, temp_dir, disk, scan,
                   repo_info, exc, calls, outcome, last, parsed>>

\* a directory whose listing request fails: swallowed
WalkDirFailed(resp) ==
    /\ pc = "walk" /\ Top.items # << >> /\ Head(Top.items) = "dir"
    /\ DirEntered(Top.max_files, Top.n)
    /\ calls' = Fail("entry", Inc("api"))
    /\ stack' = SetTop([Top EXCEPT !.items = Tail(@)])
    /\ UNCHANGED <<pureVars, caller, git_url, github_token, pc, temp_dir, disk, scan,
                   repo_info, exc, outcome, last, parsed>>

\* a directory whose listing arrives: the recursive call
WalkDirListed(listing) ==
    /\ pc = "walk" /\ Top.items # << >> /\ Head(Top.items) = "dir"
    /\ DirEntered(Top.max_files, Top.n)
    /\ Len(stack) < MaxDepth
    /\ calls' = Inc("api")
    /\ stack' = Append(SetTop([Top EXCEPT !.items = Tail(@)]),
                       Frame(listing, DirBudget(Top.max_files, Top.n)))
    /\ UNCHANGED <<pureVars, caller, git_url, github_token, pc, temp_dir, disk, scan,
                   repo_info, exc, outcome, last, parsed>>

\* item['type'] raises KeyError outside any try of this call: the caller's
\* "except Exception: pass" drops the call's files, or, in the outermost
\* call, _get_repo_via_api returns None
WalkBad ==
    /\ pc = "walk" /\ Top.items # << >> /\ Head(Top.items) = "bad"
    /\ stack' = Pop
    /\ calls' = Fail("entry", calls)
    /\ IF Len(stack) > 1
       THEN UNCHANGED <<pc, exc, last>>
       ELSE ApiFails("KeyError")
    /\ UNCHANGED <<pureVars, caller, git_url, github_token, temp_dir, disk, scan,
                   repo_info, outcome, parsed>>

\* return files_info: the caller extends its list, or the snapshot is built
WalkReturn ==
    /\ pc = "walk" /\ Top.items = << >>
    /\ IF Len(stack) > 1
       THEN /\ stack' = [Pop EXCEPT ![Len(stack) - 1].n = @ + Top.n]
            /\ UNCHANGED <<pc, repo_info, last>>
       ELSE /\ stack' = Pop
            /\ Return(ApiSnap(Top.n))
    /\ UNCHANGED <<pureVars, caller, git_url, github_token, temp_dir, disk, scan,
                   exc, calls, outcome, parsed>>

\* self.temp_dir = tempfile.mkdtemp(prefix='repo_eval_')
CloneMkdtemp(res) ==
    /\ pc = "clone_mkdtemp"
    /\ IF res = "ok"
       THEN /\ calls' = Inc("mkdtemp")
            /\ temp_dir' = MkdtempStore(temp_dir, calls.mkdtemp + 1)
            /\ disk' = disk \cup {calls.mkdtemp + 1}
            /\ pc' = "clone_run"
            /\ UNCHANGED <<repo_info, exc, last>>
       ELSE /\ CloneFails(res)
            /\ calls' = Fail("mkdtemp", calls)
            /\ UNCHANGED <<temp_dir, disk>>
    /\ UNCHANGED <<pureVars, caller, git_url, github_token, stack, scan, outcome, parsed>>

\* subprocess.run(['git', 'clone', '--depth', '1', ...], check=True, timeout=60)
CloneRun(res) ==
    /\ pc = "clone_run"
    /\ calls' = IF res = "ok" THEN Inc("clone") ELSE Fail("run", Inc("clone"))
    /\ IF res = "ok"
       THEN /\ pc' = "clone_scan"
            /\ scan' = NoScan
            /\ UNCHANGED <<repo_info, exc, last>>
       ELSE /\ CloneFails(res)
            /\ UNCHANGED scan
    /\ UNCHANGED <<pureVars, caller, git_url, github_token, temp_dir, disk, stack,
                   outcome, parsed>>

\* what rglob can yield
ScanKinds == {"code", "unreadable", "noncode", "ignored", "notfile"}

\* _scan_repository: one iteration of the loop over rglob('*')
ScanEntry(kind) ==
    /\ pc = "clone_scan"
    /\ scan.seen < MaxScanEntries
    /\ IF kind = "code"
       THEN IF ScanBreak(scan.n + 1, MaxFiles)
            THEN /\ Return(CloneSnap(scan.n + 1, calls.mkdtemp))
                 /\ scan' = NoScan
            ELSE /\ scan' = [n |-> scan.n + 1, seen |-> scan.seen + 1]
                 /\ UNCHANGED <<pc, repo_info, last>>
       ELSE /\ scan' = [scan EXCEPT !.seen = @ + 1]
            /\ UNCHANGED <<pc, repo_info, last>>
    /\ UNCHANGED <<pureVars, caller, git_url, github_token, temp_dir, disk, stack,
                   exc, calls, outcome, parsed>>

\* rglob is exhausted: return files_info, and the snapshot is built
ScanEnd ==
    /\ pc = "clone_scan"
    /\ Return(CloneSnap(scan.n, calls.mkdtemp))
    /\ scan' = NoScan
    /\ UNCHANGED <<pureVars, caller, git_url, github_token, temp_dir, disk, stack,
                   exc, calls, outcome, parsed>>

\* rglob itself raises (outside the try of the loop body)
ScanRaise ==
    /\ pc = "clone_scan"
    /\ CloneFails("OSError")
    /\ scan' = NoScan
    /\ calls' = Fail("scan", calls)
    /\ UNCHANGED <<pureVars, caller, git_url, github_token, temp_dir, disk, stack,
                   outcome, parsed>>

\* the steps of one get_repository_info call
Handler ==
    \/ GriParseUrl
    \/ ApiCheck
    \/ \E resp \in {"200", "non200", "ConnectionError", "Timeout"} : ApiMeta(resp)
    \/ \E listing \in Listings : ApiContentsListed(listing)
    \/ \E resp \in {"non200", "ConnectionError", "Timeout"} : ApiContentsFailed(resp)
    \/ \E resp \in {"nocode", "200", "non200", "Timeout"} : WalkFile(resp)
    \/ WalkSkip
    \/ \E resp \in {"non200", "Timeout"} : WalkDirFailed(resp)
    \/ \E listing \in Listings : WalkDirListed(listing)
    \/ WalkBad
    \/ WalkReturn
    \/ \E res \in {"ok", "OSError"} : CloneMkdtemp(res)
    \/ \E res \in {"ok", "CalledProcessError", "TimeoutExpired", "FileNotFoundError"} :
          CloneRun(res)
    \/ \E kind \in ScanKinds : ScanEntry(kind)
    \/ ScanEnd
    \/ ScanRaise

(***************************************************************************)
(* The callers: main() of main.py and evaluate_project() of app.py          *)
(***************************************************************************)
\* the URLs a request is made with: one well-formed, one without github.com,
\* two with an owner and no repo segment
GoodUrl == Https \o GithubCom \o <<"/", "o", "/", "r">>
BadUrl == Https \o <<"x", ".", "i", "o", "/", "o", "/", "r">>
OwnerOnlyUrl == Https \o GithubCom \o <<"/", "o">>
OwnerSlashUrl == Https \o GithubCom \o <<"/", "o", "/">>
MalformedUrls == {BadUrl, OwnerOnlyUrl, OwnerSlashUrl}
RequestUrls == {GoodUrl} \cup MalformedUrls

\* "if not repo_info"
NotRepoInfo(r) == r = NoSnap

\* git_url was not written from parts; _parse_response was not called
NoReply == [text |-> << >>, doc |-> "none"]
NoParts == [owner |-> << >>, repo |-> << >>,
            form |-> [prefix |-> << >>, git |-> FALSE, path |-> FALSE, slash |-> FALSE]]
NoResult == [kind |-> "none", exc |-> "none", score |-> 0,
             explanation |-> [k |-> "str", s |-> << >>]]

\* parser_obj.parse(description_file): the steps before GitHandler() exists
ParseDescription(res) ==
    /\ pc = "start"
    /\ IF res = "ok"
       THEN pc' = "create_handler" /\ UNCHANGED outcome
       ELSE pc' = "done" /\ outcome' = "description_error"
    /\ UNCHANGED <<pureVars, caller, git_url, github_token, temp_dir, disk, stack, scan,
                   repo_info, exc, calls, last, parsed>>

\* git_handler = GitHandler(); the try block is entered and
\* get_repository_info is called
CreateHandler ==
    /\ pc = "create_handler"
    /\ temp_dir' = None
    /\ calls' = [Inc("gri") EXCEPT !.handlers = @ + 1]
    /\ pc' = "gri_parse"
    /\ UNCHANGED <<pureVars, caller, git_url, github_token, disk, stack, scan,
                   repo_info, exc, outcome, last, parsed>>

\* "if not repo_info: return <error>"
CallerCheck ==
    /\ pc = "gri_return" /\ caller \in {"main", "app"}
    /\ IF NotRepoInfo(repo_info)
       THEN pc' = TryExit("return") /\ outcome' = "repo_inaccessible"
       ELSE pc' = "evaluator_init" /\ UNCHANGED outcome
    /\ UNCHANGED <<pureVars, caller, git_url, github_token, temp_dir, disk, stack, scan,
                   repo_info, exc, calls, last, parsed>>

\* ProjectEvaluator(model, api_key) raises ValueError without a key
EvaluatorInit(res) ==
    /\ pc = "evaluator_init"
    /\ IF res = "ok"
       THEN pc' = "call_llm" /\ UNCHANGED exc
       ELSE pc' = TryExit("raise") /\ exc' = res
    /\ UNCHANGED <<pureVars, caller, git_url, github_token, temp_dir, disk, stack, scan,
                   repo_info, calls, outcome, last, parsed>>

\* evaluator.evaluate: self._call_llm(prompt)
CallLLM(res) ==
    /\ pc = "call_llm"
    /\ calls' = Inc("llm")
    /\ IF res = "ok"
       THEN pc' = "parse_response" /\ UNCHANGED exc
       ELSE pc' = TryExit("raise") /\ exc' = res
    /\ UNCHANGED <<pureVars, caller, git_url, github_token, temp_dir, disk, stack, scan,
                   repo_info, outcome, last, parsed>>

\* evaluator.evaluate: self._parse_response(response), then the report
ParseResponse(res) ==
    /\ pc = "parse_response"
    /\ IF res = "ok"
       THEN pc' = TryExit("return") /\ outcome' = "result" /\ UNCHANGED exc
       ELSE pc' = TryExit("raise") /\ exc' = res /\ UNCHANGED outcome
    /\ UNCHANGED <<pureVars, caller, git_url, github_token, temp_dir, disk, stack, scan,
                   repo_info, calls, last, parsed>>

\* finally: git_handler.cleanup()
Finally ==
    /\ pc = "finally"
    /\ calls' = Inc("cleanup")
    /\ disk' = Cleanup(temp_dir, disk).disk
    /\ last' = Done("cleanup", Cleanup(temp_dir, disk).raised)
    /\ exc' = IF Cleanup(temp_dir, disk).raised THEN "TypeError" ELSE exc
    /\ pc' = IF exc' # "none" THEN "except" ELSE "done"
    /\ UNCHANGED <<pureVars, caller, git_url, github_token, temp_dir, stack, scan,
                   repo_info, outcome, parsed>>

\* the outer "except Exception as e" of the caller
Except ==
    /\ pc = "except"
    /\ outcome' = "error"
    /\ pc' = "done"
    /\ UNCHANGED <<pureVars, caller, git_url, github_token, temp_dir, disk, stack, scan,
                   repo_info, exc, calls, last, parsed>>

NoCalls == [api |-> 0, mkdtemp |-> 0, clone |-> 0, llm |-> 0, cleanup |-> 0,
            gri |-> 0, handlers |-> 0, fails |-> {}]

Init ==
    /\ caller \in {"main", "app"}
    /\ git_url \in RequestUrls
    /\ github_token \in BOOLEAN
    /\ pc = "start"
    /\ temp_dir = None
    /\ disk = {}
    /\ stack = << >>
    /\ scan = NoScan
    /\ repo_info = NoSnap
    /\ exc = "none"
    /\ calls = NoCalls
    /\ outcome = "none"
    /\ last = [op |-> "none", raised |-> FALSE, streak |-> 0]
    /\ parsed = NoMatch
    /\ url_parts = NoParts
    /\ file_text = << >>
    /\ content = << >>
    /\ response = NoReply
    /\ result = NoResult

Request ==
    \/ \E res \in {"ok", "empty", "FileNotFoundError"} : ParseDescription(res)
    \/ CreateHandler
    \/ CallerCheck
    \/ \E res \in {"ok", "ValueError"} : EvaluatorInit(res)
    \/ \E res \in {"ok", "Exception"} : CallLLM(res)
    \/ \E res \in {"ok", "TypeError"} : ParseResponse(res)
    \/ Finally
    \/ Except

Next == Handler \/ Request

Spec == Init /\ [][Next]_vars

(***************************************************************************)
(* A client that uses one GitHandler directly                               *)
(***************************************************************************)
\* handler.get_repository_info(url)
ClientCall(url) ==
    /\ pc = "idle" /\ calls.gri < MaxCalls
    /\ git_url' = url
    /\ exc' = "none"
    /\ repo_info' = NoSnap
    /\ calls' = [Inc("gri") EXCEPT !.api = 0, !.clone = 0, !.fails = {}]
    /\ pc' = "gri_parse"
    /\ UNCHANGED <<pureVars, caller, github_token, temp_dir, disk, stack, scan,
                   outcome, last, parsed>>

\* the call returned
ClientResume ==
    /\ pc = "gri_return" /\ caller = "client"
    /\ pc' = "idle"
    /\ UNCHANGED <<pureVars, caller, git_url, github_token, temp_dir, disk, stack, scan,
                   repo_info, exc, calls, outcome, last, parsed>>

\* handler.cleanup()
ClientCleanup ==
    /\ pc = "idle" /\ calls.cleanup < MaxCleanups
    /\ calls' = Inc("cleanup")
    /\ disk' = Cleanup(temp_dir, disk).disk
    /\ last' = Done("cleanup", Cleanup(temp_dir, disk).raised)
    /\ exc' = IF Cleanup(temp_dir, disk).raised THEN "TypeError" ELSE exc
    /\ UNCHANGED <<pureVars, caller, git_url, github_token, pc, temp_dir, stack, scan,
                   repo_info, outcome, parsed>>

InitInstance ==
    /\ caller = "client"
    /\ git_url = GoodUrl
    /\ github_token \in BOOLEAN
    /\ pc = "idle"
    /\ temp_dir = None
    /\ disk = {}
    /\ stack = << >>
    /\ scan = NoScan
    /\ repo_info = NoSnap
    /\ exc = "none"
    /\ calls = [NoCalls EXCEPT !.handlers = 1]
    /\ outcome = "none"
    /\ last = [op |-> "none", raised |-> FALSE, streak |-> 0]
    /\ parsed = NoMatch
    /\ url_parts = NoParts
    /\ file_text = << >>
    /\ content = << >>
    /\ response = NoReply
    /\ result = NoResult

Client ==
    \/ \E url \in {GoodUrl, BadUrl} : ClientCall(url)
    \/ ClientResume
    \/ ClientCleanup

NextInstance == Handler \/ Client

SpecInstance == InitInstance /\ [][NextInstance]_vars

(***************************************************************************)
(* Claims about the Repository Acquirer                                     *)
(***************************************************************************)
ApiStages == {"meta", "contents", "entry"}
CloneStages == {"mkdtemp", "run", "scan"}

\* C1: the snapshot returned by get_repository_info holds at most max_files
\* file records, and so does the list built by every call of
\* _extract_files_info and by _scan_repository.
C1_FileCap ==
    /\ repo_info.nfiles <= MaxFiles
    /\ \A i \in 1..Len(stack) : stack[i].n <= stack[i].max_files
    /\ scan.n <= MaxFiles

\* C2: with a credential configured, once any step of the API path has
\* failed (metadata request, contents listing, a later listing or fetch),
\* get_repository_info does not return an API snapshot: it goes on to the
\* clone strategy, returns what the clone gives, and raises nothing.
C2_ApiFailureFallsBack ==
    (github_token /\ calls.fails \cap ApiStages # {} /\ pc = "gri_return")
        => /\ repo_info.source \in {"clone", "none"}
           /\ calls.mkdtemp + Cardinality(calls.fails \cap {"mkdtemp"}) >= 1
           /\ exc = "none"

\* C5: in a request that created a GitHandler, cleanup() has been invoked
\* exactly once when the request returns, on every exit path, and never
\* more than once before; a request that created none never invokes it.
C5_CleanupExactlyOnce ==
    /\ calls.cleanup <= calls.handlers
    /\ pc = "done" => calls.cleanup = calls.handlers

\* C5 witness: the request ended in the caller's error handler after the
\* text-generation call raised on a snapshot the clone fallback produced.
C5_Witness ==
    /\ pc = "done" /\ outcome = "error" /\ calls.llm = 1
    /\ repo_info.source = "clone" /\ "meta" \in calls.fails
    /\ calls.cleanup = 1

\* C6: every cleanup() call returns without raising and leaves temp_dir
\* as it was; called with no temporary directory ever created it changes
\* nothing on disk; called right after another cleanup() it changes nothing;
\* after it the instance's temporary directory does not exist.
C6_CleanupIdempotent ==
    [][calls'.cleanup = calls.cleanup + 1 =>
          /\ ~last'.raised
          /\ exc' = exc
          /\ temp_dir' = temp_dir
          /\ temp_dir = None => disk' = disk
          /\ last.op = "cleanup" => disk' = disk
          /\ temp_dir' \notin disk']_vars

\* C6 witness: two cleanup() calls in a row on an instance whose clone
\* attempt created a temporary directory.
C6_Witness ==
    /\ last.op = "cleanup" /\ last.streak = 2
    /\ temp_dir # None /\ temp_dir \notin disk

\* C7: when a request has ended, no temporary directory exists.
C7_NoTempDirLeft == pc = "done" => disk = {}

\* C7 witness: the checkout failed after its temporary directory was
\* created, and the request ended with the directory removed.
C7_Witness ==
    /\ pc = "done" /\ "run" \in calls.fails
    /\ calls.mkdtemp = 1 /\ temp_dir = 1 /\ disk = {}

\* C8: without a credential no API request is made, no step of the API
\* path is reached, and a returned snapshot has source 'clone' and carries
\* the local path inside the instance's temporary directory.
C8_NoCredentialCloneOnly ==
    ~github_token =>
        /\ calls.api = 0
        /\ pc \notin {"api_meta", "api_contents", "walk"}
        /\ calls.fails \cap ApiStages = {}
        /\ repo_info # NoSnap =>
              /\ repo_info.source = "clone"
              /\ repo_info.local_path # None
              /\ repo_info.local_path = temp_dir

\* C8 witness: without a credential a snapshot was returned.
C8_Witness == ~github_token /\ pc = "gri_return" /\ repo_info.source = "clone"

\* C9: once a step of the clone attempt has failed (creating the temporary
\* directory, the checkout exiting non-zero or timing out, the scan),
\* get_repository_info returns None and raises nothing, and the caller
\* reports "repository inaccessible" without a text-generation call.
C9_CloneFailureIsNoSnapshot ==
    calls.fails \cap CloneStages # {} =>
        /\ repo_info = NoSnap
        /\ exc = "none"
        /\ calls.llm = 0
        /\ pc \in {"gri_return", "finally", "done"}
        /\ pc \in {"finally", "done"} => outcome = "repo_inaccessible"

\* C9 witness: the checkout failed and the request ended.
C9_Witness ==
    /\ "run" \in calls.fails /\ pc = "done" /\ outcome = "repo_inaccessible"

(***************************************************************************)
(* The Identifier Resolver on its own: SpecUrl applies _parse_github_url    *)
(* to every well-formed form of a repository URL.                           *)
(***************************************************************************)
Owners == {<<"o">>, <<"a", "b">>, <<"g", "i", "t">>}
Repos == {<<"r">>, <<"r", ".", "x">>, <<"m", "y", "-", "r">>}
SshPrefix == <<"g", "i", "t", "@">> \o GithubCom \o <<":">>
HttpsPrefix == Https \o GithubCom \o <<"/">>
PathSegments == <<"/", "t", "r", "e", "e", "/", "m", "a", "i", "n">>

\* a form: which prefix, and which of the '.git' suffix, the trailing path
\* segments and the trailing slash are present
Forms ==
    [prefix : {SshPrefix, HttpsPrefix}, git : BOOLEAN, path : BOOLEAN, slash : BOOLEAN]

BareForm == [prefix |-> HttpsPrefix, git |-> FALSE, path |-> FALSE, slash |-> FALSE]

\* the URL of owner/repo written in form f
Url(owner, repo, f) ==
    f.prefix \o owner \o <<"/">> \o repo
        \o (IF f.git THEN DotGit ELSE << >>)
        \o (IF f.path THEN PathSegments ELSE << >>)
        \o (IF f.slash THEN <<"/">> ELSE << >>)

\* s ends with suffix
EndsWith(s, suffix) ==
    /\ Len(s) >= Len(suffix)
    /\ SubSeq(s, Len(s) - Len(suffix) + 1, Len(s)) = suffix

\* owner, repo = self._parse_github_url(git_url)
Resolve ==
    /\ pc = "resolve"
    /\ parsed' = ParseGithubUrl(git_url)
    /\ pc' = "resolved"
    /\ UNCHANGED <<pureVars, caller, git_url, github_token, temp_dir, disk, stack,
                   scan, repo_info, exc, calls, outcome, last>>

InitUrl ==
    /\ caller = "resolver"
    /\ url_parts \in [owner : Owners, repo : Repos, form : Forms]
    /\ file_text = << >>
    /\ content = << >>
    /\ git_url = Url(url_parts.owner, url_parts.repo, url_parts.form)
    /\ github_token = FALSE
    /\ pc = "resolve"
    /\ temp_dir = None
    /\ disk = {}
    /\ stack = << >>
    /\ scan = NoScan
    /\ repo_info = NoSnap
    /\ exc = "none"
    /\ calls = NoCalls
    /\ outcome = "none"
    /\ last = [op |-> "none", raised |-> FALSE, streak |-> 0]
    /\ parsed = NoMatch
    /\ response = NoReply
    /\ result = NoResult

NextUrl == Resolve

SpecUrl == InitUrl /\ [][NextUrl]_vars

\* C10: for every owner and repo, every well-formed form of the URL (bare,
\* '.git' suffix, trailing slash, trailing path segments, any combination)
\* resolves to the pair the bare form resolves to, which is (owner, repo),
\* and the returned repo ends neither with '/' nor with '.git'.
C10_SamePairForAllForms ==
    pc = "resolved" =>
        /\ parsed = ParseGithubUrl(Url(url_parts.owner, url_parts.repo, BareForm))
        /\ parsed = [matched |-> TRUE, owner |-> url_parts.owner, repo |-> url_parts.repo]
        /\ ~EndsWith(parsed.repo, <<"/">>)
        /\ ~EndsWith(parsed.repo, DotGit)

(***************************************************************************)
(* Response Normalizer: ProjectEvaluator._parse_response                    *)
(*                                                                          *)
(* A reply is a sequence of tokens; at most one token stands for a          *)
(* serialized JSON document, whose content is the reply's doc.              *)
(***************************************************************************)
Tok(t, n, s) == [t |-> t, n |-> n, s |-> s]
NL == Tok("nl", 0, "\n")
SP == Tok("sp", 0, " ")
\* three backquotes
FENCE == Tok("fence", 0, "fence")
JSON == Tok("json", 0, "")
COLON == Tok("punct", 0, ":")
EQUALS == Tok("punct", 0, "=")
QUOTE == Tok("punct", 0, "\"")
W(s) == Tok("word", 0, s)
N(n) == Tok("num", n, "")
L(s) == Tok("lit", 0, s)

\* characters str.strip() removes and json.loads skips
IsSpace(tok) == tok.t \in {"sp", "nl"}

RECURSIVE LStrip(_)
LStrip(text) ==
    IF Len(text) > 0 /\ IsSpace(text[1]) THEN LStrip(Tail(text)) ELSE text

RECURSIVE RStrip(_)
RStrip(text) ==
    IF Len(text) > 0 /\ IsSpace(text[Len(text)])
    THEN RStrip(SubSeq(text, 1, Len(text) - 1))
    ELSE text

\* response.strip()
Strip(text) == LStrip(RStrip(text))

\* response.startswith(<three backquotes>)
StartsWithFence(text) == Len(text) > 0 /\ text[1].t = "fence"

\* position of the first newline of text, 0 if it has none
FirstNl(text) ==
    IF \E i \in 1..Len(text) : text[i].t = "nl"
    THEN SetMin({i \in 1..Len(text) : text[i].t = "nl"})
    ELSE 0

RECURSIVE SplitLines(_)
\* response.split('\n')
SplitLines(text) ==
    IF FirstNl(text) = 0
    THEN <<text>>
    ELSE <<SubSeq(text, 1, FirstNl(text) - 1)>>
             \o SplitLines(SubSeq(text, FirstNl(text) + 1, Len(text)))

RECURSIVE JoinLines(_)
\* '\n'.join(lines)
JoinLines(lines) ==
    IF Len(lines) = 0 THEN << >>
    ELSE IF Len(lines) = 1 THEN lines[1]
    ELSE lines[1] \o <<NL>> \o JoinLines(Tail(lines))

\* "'\n'.join(lines[1:-1]) if len(lines) > 2 else response"
DefenceOverThree(text) ==
    IF Len(SplitLines(text)) > 3
    THEN JoinLines(SubSeq(SplitLines(text), 2, Len(SplitLines(text)) - 1))
    ELSE text
Defence(text) ==
    IF Len(SplitLines(text)) > 2
    THEN JoinLines(SubSeq(SplitLines(text), 2, Len(SplitLines(text)) - 1))
    ELSE text

\* the text json.loads is given
Prepared(text) ==
    IF StartsWithFence(Strip(text)) THEN Defence(Strip(text)) ELSE Strip(text)

\* json.loads(response) succeeds: the text is one JSON value, possibly
\* surrounded by whitespace
JsonValid(text) ==
    /\ Len(Strip(text)) = 1
    /\ \/ Strip(text)[1].t = "json"
       \/ Strip(text)[1].t = "num"

\* the value json.loads returns: the document, or a bare number
JsonLoads(text, doc) ==
    IF Strip(text)[1].t = "json" THEN doc ELSE [doc EXCEPT !.top = "num"]

\* values of the 'score' key and what int() makes of them
SV(k, n) == [k |-> k, n |-> n]
IntOf(v) ==
    CASE v.k \in {"absent", "int", "float", "numstr", "bool"} ->
             [raised |-> "none", n |-> v.n]
      [] v.k \in {"null", "list"} -> [raised |-> "TypeError", n |-> 0]
      [] v.k \in {"str", "nan"} -> [raised |-> "ValueError", n |-> 0]
      [] OTHER -> [raised |-> "OverflowError", n |-> 0]

\* max(0, min(100, score))
Clamp(n) == IF n < 0 THEN 0 ELSE IF n > 100 THEN 100 ELSE n

\* a value of 'explanation' (s: its characters when it is a string), and
\* the default of data.get('explanation', ...)
EV(k, text) == [k |-> k, s |-> text]
Placeholder == EV("str", <<L("No explanation provided.")>>)

\* "'key' in data and data['key']" for a value v of kind k
Truthy(v) ==
    \/ v.k \in {"num", "dict"}
    \/ v.k = "list" /\ v.items # << >>

\* the explanation built so far (e), or the exception raised on the way
Acc(e) == [raised |-> "none", e |-> e]
Raised(acc, exception) ==
    IF acc.raised # "none" THEN acc ELSE [acc EXCEPT !.raised = exception]

\* detailed_explanation += text: str + str, or list.extend(str); any
\* other left operand raises TypeError
Plus(acc, text) ==
    IF acc.raised # "none" THEN acc
    ELSE IF acc.e.k \in {"str", "list"} THEN [acc EXCEPT !.e.s = @ \o text]
    ELSE Raised(acc, "TypeError")

\* one row of the table: item.get(...), the comparison points_possible > 0,
\* and the rendered line
RowLine(row) ==
    <<L("| N/A | N/A | N/A | "), N(row.pa)>>
        \o (IF row.pp > 0 THEN <<L("/"), N(row.pp)>> ELSE << >>)
        \o <<L(" | N/A |"), NL>>

PlusRow(acc, row) ==
    IF row.k # "dict" THEN Raised(acc, "AttributeError")
    ELSE IF row.ppk # "int" THEN Raised(acc, "TypeError")
    ELSE Plus(acc, RowLine(row))

RECURSIVE PlusRows(_, _)
PlusRows(acc, rows) ==
    IF rows = << >> THEN acc ELSE PlusRows(PlusRow(acc, Head(rows)), Tail(rows))

\* the headings of the sections; U+xxxx stands for the emoji of the source
TableTitle == L("## U+1F4CA Detailed Evaluation Table")
SummaryTitle == L("## U+1F4C8 Evaluation Summary")
StrengthsTitle == L("### U+2705 Strengths:")
WeaknessesTitle == L("### U+274C Weaknesses:")
MissingTitle == L("### U+26A0 U+FE0F Missing Features:")

TableHeader ==
    <<NL, NL, TableTitle, NL, NL,
      L("| Requirement | Expected | Actual Work Done | Points Awarded | Justification |"), NL,
      L("|------------|----------|------------------|----------------|---------------|"), NL>>

\* "if 'evaluation_table' in data and data['evaluation_table']"
PlusTable(acc, v) ==
    IF ~Truthy(v) THEN acc
    ELSE IF v.k # "list" THEN Raised(Plus(acc, TableHeader), "TypeError")
    ELSE PlusRows(Plus(acc, TableHeader), v.items)

SummaryLines ==
    <<NL, NL, SummaryTitle, NL, NL,
      L("- **Total Points Awarded**: 0"), NL,
      L("- **Total Points Possible**: 0"), NL,
      L("- **Requirements Fully Met**: 0"), NL,
      L("- **Requirements Partially Met**: 0"), NL,
      L("- **Requirements Not Met**: 0"), NL>>

\* "if 'summary' in data and data['summary']"; summary.get needs a dict
PlusSummary(acc, v) ==
    IF ~Truthy(v) THEN acc
    ELSE IF v.k # "dict"
    THEN Raised(Plus(acc, SubSeq(SummaryLines, 1, 5)), "AttributeError")
    ELSE Plus(acc, SummaryLines)

RECURSIVE PlusItems(_, _)
\* for x in data[key]: detailed_explanation += f"- {x}\n"
PlusItems(acc, items) ==
    IF items = << >> THEN acc
    ELSE PlusItems(Plus(acc, <<L("- ")>> \o Head(items) \o <<NL>>), Tail(items))

\* a bulleted section under heading
PlusSection(acc, heading, v) ==
    IF ~Truthy(v) THEN acc
    ELSE IF v.k # "list"
    THEN Raised(Plus(acc, <<NL, NL, heading, NL>>), "TypeError")
    ELSE PlusItems(Plus(acc, <<NL, NL, heading, NL>>), v.items)

\* what _parse_response returns, or the exception it raises
Returned(score, e) == [kind |-> "ok", exc |-> "none", score |-> score, explanation |-> e]
Raises(exception) ==
    [kind |-> "raise", exc |-> exception, score |-> 0, explanation |-> EV("str", << >>)]

\* detailed_explanation after all sections
Detailed(data) ==
    PlusSection(
        PlusSection(
            PlusSection(
                PlusSummary(
                    PlusTable(
                        Acc(IF data.explanation.k = "absent" THEN Placeholder
                            ELSE data.explanation),
                        data.table),
                    data.summary),
                StrengthsTitle, data.strengths),
            WeaknessesTitle, data.weaknesses),
        MissingTitle, data.missing)

\* the try block after json.loads succeeded; only json.JSONDecodeError is
\* caught, so every other exception leaves _parse_response
Structured(data) ==
    IF data.top # "obj" THEN Raises("AttributeError")
    ELSE IF IntOf(data.score).raised # "none" THEN Raises(IntOf(data.score).raised)
    ELSE IF Detailed(data).raised # "none" THEN Raises(Detailed(data).raised)
    ELSE Returned(Clamp(IntOf(data.score).n), Detailed(data).e)

\* how json.dumps writes a value of the 'score' key
ScoreTokens(v) ==
    CASE v.k = "int" /\ v.n >= 0 -> <<N(v.n)>>
      [] v.k = "int" /\ v.n < 0 -> <<L("-"), N(0 - v.n)>>
      [] v.k = "float" -> <<N(v.n), L(".7")>>
      [] v.k = "numstr" -> <<QUOTE, N(v.n), QUOTE>>
      [] v.k = "str" -> <<QUOTE, W("abc"), QUOTE>>
      [] v.k = "bool" -> <<W("true")>>
      [] v.k = "nan" -> <<W("NaN")>>
      [] v.k = "null" -> <<W("null")>>
      [] OTHER -> <<L("[]")>>

\* the characters the document token stands for, as far as the fallback's
\* pattern can tell them apart
Serialize(doc) ==
    IF doc.top # "obj" THEN <<L("[1]")>>
    ELSE <<L("{")>>
         \o (IF doc.score.k = "absent" THEN << >>
             ELSE <<QUOTE, W("score"), QUOTE, COLON, SP>>
                      \o ScoreTokens(doc.score) \o <<L(",")>>)
         \o (IF doc.explanation.k # "str" THEN << >>
             ELSE <<QUOTE, W("explanation"), QUOTE, COLON, SP, QUOTE>>
                      \o doc.explanation.s \o <<QUOTE>>)
         \o <<L("}")>>

RECURSIVE Expand(_, _)
\* the reply with its document token written out
Expand(text, doc) ==
    IF text = << >> THEN << >>
    ELSE (IF Head(text).t = "json" THEN Serialize(doc) ELSE <<Head(text)>>)
             \o Expand(Tail(text), doc)

RECURSIVE SkipSpace(_, _)
\* where \s* stops when it starts at position j of t
SkipSpace(t, j) ==
    IF j <= Len(t) /\ IsSpace(t[j]) THEN SkipSpace(t, j + 1) ELSE j

\* re.IGNORECASE spellings of the key
ScoreWords == {"score", "Score", "SCORE"}

\* position after score["\']?
AfterKey(t, i) == IF i + 1 <= Len(t) /\ t[i + 1] = QUOTE THEN i + 2 ELSE i + 1

\* position the separator [:=] must be at, and position of (\d+)
SepPos(t, i) == SkipSpace(t, AfterKey(t, i))
NumPos(t, i) == SkipSpace(t, SepPos(t, i) + 1)

\* score["\']?\s*[:=]\s*(\d+) matches t from position i
ScoreMatchAt(t, i) ==
    /\ t[i].t = "word" /\ t[i].s \in ScoreWords
    /\ SepPos(t, i) <= Len(t)
    /\ t[SepPos(t, i)] \in {COLON, EQUALS}
    /\ NumPos(t, i) <= Len(t)
    /\ t[NumPos(t, i)].t = "num"

ScoreMatches(t) == {i \in 1..Len(t) : ScoreMatchAt(t, i)}

\* "int(score_match.group(1)) if score_match else 50"
FallbackScore(t) ==
    IF ScoreMatches(t) # {} THEN t[NumPos(t, SetMin(ScoreMatches(t)))].n ELSE 50

\* except json.JSONDecodeError: the response variable holds the prepared text
Fallback(text, doc) ==
    Returned(Clamp(FallbackScore(Expand(text, doc))), EV("str", text))

\* _parse_response(response)
ParseResponseOp(r) ==
    IF JsonValid(Prepared(r.text))
    THEN Structured(JsonLoads(Prepared(r.text), r.doc))
    ELSE Fallback(Prepared(r.text), r.doc)

(***************************************************************************)
(* SpecNorm applies _parse_response to a set of replies.                    *)
(***************************************************************************)
LV(k, items) == [k |-> k, items |-> items]
Absent == LV("absent", << >>)
EmptyList == LV("list", << >>)
NumVal == LV("num", << >>)
Item == <<W("login")>>
GoodList == LV("list", <<Item>>)
Row(k, ppk, pp, pa) == [k |-> k, ppk |-> ppk, pp |-> pp, pa |-> pa]

ScoreVals ==
    {SV("absent", 0), SV("null", 0), SV("int", -10), SV("int", 0), SV("int", 80),
     SV("int", 150), SV("float", 80), SV("numstr", 80), SV("str", 0), SV("nan", 0),
     SV("inf", 0), SV("bool", 1), SV("list", 0)}
ExplVals ==
    {EV("absent", << >>), EV("str", <<W("Login"), SP, W("present")>>),
     EV("str", << >>), EV("num", << >>), EV("null", << >>), EV("list", << >>)}
TableVals ==
    {Absent, EmptyList, NumVal,
     LV("list", <<Row("dict", "int", 10, 5)>>),
     LV("list", <<Row("dict", "int", 0, 5), Row("dict", "int", 10, 10)>>),
     LV("list", <<Row("dict", "str", 0, 5)>>),
     LV("list", <<Row("num", "int", 0, 0)>>)}
SummaryVals == {Absent, EmptyList, LV("dict", << >>), GoodList}
ListVals == {Absent, EmptyList, GoodList, NumVal}

\* a document without the optional extras
Plain(score, explanation) ==
    [top |-> "obj", score |-> score, explanation |-> explanation,
     table |-> Absent, summary |-> Absent, strengths |-> Absent,
     weaknesses |-> Absent, missing |-> Absent]

Docs ==
    {Plain(sc, e) : sc \in ScoreVals, e \in ExplVals}
    \cup {[Plain(SV("int", 80), EV("absent", << >>)) EXCEPT !.top = t] :
             t \in {"list", "str", "null"}}
    \cup [top : {"obj"}, score : {SV("int", 80)},
          explanation : {EV("absent", << >>), EV("num", << >>),
                         EV("str", <<W("Login"), SP, W("present")>>)},
          table : TableVals, summary : SummaryVals, strengths : ListVals,
          weaknesses : {Absent, EmptyList, GoodList}, missing : {Absent, GoodList}]

\* what stands between the fences, or is the whole reply
Bodies ==
    {<<JSON>>, << >>, <<W("text")>>, <<N(73)>>,
     <<W("text"), SP, JSON>>,
     <<W("score"), COLON, SP, N(73), NL, W("text")>>,
     <<W("Score"), SP, EQUALS, SP, N(150)>>,
     <<W("score"), COLON, SP, L("-"), N(10)>>}

\* a body as the service sends it: bare, in whitespace, in a code fence
Wrapped(body) ==
    {body,
     <<SP>> \o body \o <<NL>>,
     <<FENCE, W("json"), NL>> \o body \o <<NL, FENCE>>,
     <<NL, FENCE, NL>> \o body \o <<NL, FENCE, NL>>,
     <<FENCE>> \o body \o <<NL, FENCE>>,
     <<FENCE, W("json"), NL>> \o body}

HasJson(text) == \E i \in 1..Len(text) : text[i].t = "json"

\* the replies: a document goes with the texts that hold a document token
Replies ==
    UNION {{[text |-> text, doc |-> doc] :
              doc \in IF HasJson(text) THEN Docs
                      ELSE {Plain(SV("absent", 0), EV("absent", << >>))}} :
           text \in UNION {Wrapped(body) : body \in Bodies}}

\* result = self._parse_response(response)
Normalize ==
    /\ pc = "parse_response" /\ caller = "evaluate"
    /\ result' = ParseResponseOp(response)
    /\ pc' = "normalized"
    /\ UNCHANGED <<url_parts, response, file_text, content, caller, git_url,
                   github_token, temp_dir,
                   disk, stack, scan, repo_info, exc, calls, outcome, last, parsed>>

InitNorm ==
    /\ caller = "evaluate"
    /\ response \in Replies
    /\ result = NoResult
    /\ pc = "parse_response"
    /\ url_parts = NoParts
    /\ file_text = << >>
    /\ content = << >>
    /\ git_url = << >>
    /\ github_token = FALSE
    /\ temp_dir = None
    /\ disk = {}
    /\ stack = << >>
    /\ scan = NoScan
    /\ repo_info = NoSnap
    /\ exc = "none"
    /\ calls = NoCalls
    /\ outcome = "none"
    /\ last = [op |-> "none", raised |-> FALSE, streak |-> 0]
    /\ parsed = NoMatch

NextNorm == Normalize

SpecNorm == InitNorm /\ [][NextNorm]_vars

\* C3: for every reply _parse_response returns a result; it raises nothing.
C3_NeverRaises == pc = "normalized" => result.kind = "ok"

\* C4: every result _parse_response returns has a score in 0..100 and an
\* explanation that is a non-empty string.
C4_ScoreRangeAndExplanation ==
    (pc = "normalized" /\ result.kind = "ok") =>
        /\ result.score \in 0..100
        /\ result.explanation.k = "str"
        /\ result.explanation.s # << >>
(***************************************************************************)
(* Further claims about the Repository Acquirer                             *)
(***************************************************************************)
\* C11: for a malformed URL (no github.com segment, or an owner with no
\* repo segment) get_repository_info raises ValueError before any
\* acquisition step: no API request, no temporary directory, no clone, and
\* the request ends in the caller's error handler without a
\* text-generation call.
C11_MalformedUrlIsFatal ==
    git_url \in MalformedUrls =>
        /\ calls.api = 0 /\ calls.mkdtemp = 0 /\ calls.clone = 0 /\ calls.llm = 0
        /\ disk = {} /\ temp_dir = None
        /\ calls.fails = {}
        /\ pc \in {"start", "create_handler", "gri_parse", "finally", "except", "done"}
        /\ pc \in {"finally", "except"} => exc = "ValueError" /\ last.op # "none"
        /\ (pc = "done" /\ calls.gri = 1) => exc = "ValueError" /\ outcome = "error"

\* C11 witness: a request for a URL with an owner and no repo segment ended
\* in the error handler after get_repository_info raised ValueError.
C11_Witness ==
    /\ git_url = OwnerSlashUrl /\ pc = "done" /\ calls.gri = 1
    /\ exc = "ValueError" /\ outcome = "error" /\ calls.cleanup = 1
\* positions inside _get_repo_via_api and inside _get_repo_via_clone
ApiPcs == {"api_check", "api_meta", "api_contents", "walk"}
ClonePcs == {"clone_mkdtemp", "clone_run", "clone_scan"}

\* C14: within one call of get_repository_info the API attempt is entered
\* once, from the URL check; the clone attempt is entered once, and only
\* from the API attempt, skipped or ended without a snapshot; the API is
\* never tried after the clone; no step of either attempt ends the call
\* with an exception; the call returns an API snapshot with no temporary
\* directory created and no clone run, or a clone snapshot, or None.
C14_StrategiesInSequence ==
    [][/\ pc' = "api_check" => pc \in {"gri_parse", "api_check"}
       /\ (pc' \in ApiPcs /\ pc \notin ApiPcs) => pc = "gri_parse"
       /\ (pc' \in ClonePcs /\ pc \notin ClonePcs) =>
              /\ pc \in ApiPcs /\ pc' = "clone_mkdtemp"
              /\ repo_info = NoSnap /\ calls.mkdtemp = 0 /\ calls.clone = 0
       /\ pc \in ClonePcs => pc' \notin ApiPcs
       /\ pc \in ApiPcs \cup ClonePcs =>
              pc' \in ApiPcs \cup ClonePcs \cup {"gri_return"} /\ exc' = "none"
       /\ calls'.mkdtemp <= 1 /\ calls'.clone <= 1
       /\ (pc' = "gri_return" /\ pc # "gri_return") =>
              \/ /\ pc \in ApiPcs /\ repo_info'.source = "api"
                 /\ calls'.mkdtemp = 0 /\ calls'.clone = 0 /\ disk' = {}
              \/ /\ pc \in ClonePcs /\ repo_info'.source = "clone"
                 /\ calls'.mkdtemp = 1 /\ calls'.clone = 1
              \/ /\ pc \in ClonePcs /\ repo_info' = NoSnap]_vars

\* C14 witness: with a credential the metadata request failed and the call
\* returned the snapshot of the clone that followed.
C14_Witness ==
    /\ pc = "gri_return" /\ github_token /\ repo_info.source = "clone"
    /\ calls.api = 1 /\ calls.mkdtemp = 1 /\ calls.clone = 1

\* C15: the budget handed to each recursive call of _extract_files_info is
\* strictly smaller than the budget of the call that makes it, unless the
\* listing it is given is empty; this is what bounds the depth of the walk.
C15_BudgetStrictlyDecreases ==
    [][(Len(stack) >= 1 /\ Len(stack') = Len(stack) + 1) =>
          \/ stack'[Len(stack')].max_files < Top.max_files
          \/ stack'[Len(stack')].items = << >>]_vars

\* C16: whatever happens to one entry of a listing in _extract_files_info
\* (fetched, skipped, its request failing, a field missing), the walk goes
\* on with the entries after it: the call that looks at the entry stays
\* active with the rest of its listing and the records it has, the calls
\* below it are untouched, and the API path is not left.
C16_EntryFailureOmitsOnlyEntry ==
    [][(pc = "walk" /\ Top.items # << >>) =>
          /\ pc' = "walk"
          /\ Len(stack') >= Len(stack)
          /\ stack'[Len(stack)].items = Tail(Top.items)
          /\ stack'[Len(stack)].n >= Top.n
          /\ \A i \in 1..(Len(stack) - 1) : stack'[i] = stack[i]]_vars

\* C20: right after a cleanup() call on an instance, whatever calls of
\* get_repository_info came before it, no temporary directory the instance
\* created exists.
C20_CleanupRemovesEveryTempDir ==
    (pc = "idle" /\ last.op = "cleanup") => disk = {}

(***************************************************************************)
(* The content of a file record: SpecContent stores one file's text the way *)
(* _extract_files_info and the way _scan_repository store it.               *)
(***************************************************************************)
\* "\n... (truncated)"
Marker ==
    <<"\n", ".", ".", ".", " ", "(", "t", "r", "u", "n", "c", "a", "t", "e", "d", ")">>

\* 'content': file_response.text[:50000]
ApiContent(text) == Take(text, ContentCap)

\* "if len(content) > 50000: content = content[:50000] + <marker>"
ScanContent(text) ==
    IF Len(text) > ContentCap THEN Take(text, ContentCap) \o Marker ELSE text

\* the texts a file can hold: every length up to two over the cap
FileTexts == UNION {[1..n -> {"a", "b"}] : n \in 0..(ContentCap + 2)}

\* files_info.append({... 'content': file_response.text[:50000] ...})
ApiStore ==
    /\ pc = "store" /\ caller = "_extract_files_info"
    /\ content' = ApiContent(file_text)
    /\ pc' = "stored"
    /\ UNCHANGED <<url_parts, response, result, file_text, caller, git_url,
                   github_token, temp_dir, disk, stack, scan, repo_info, exc, calls,
                   outcome, last, parsed>>

\* files_info.append({... 'content': content ...}) of _scan_repository
ScanStore ==
    /\ pc = "store" /\ caller = "_scan_repository"
    /\ content' = ScanContent(file_text)
    /\ pc' = "stored"
    /\ UNCHANGED <<url_parts, response, result, file_text, caller, git_url,
                   github_token, temp_dir, disk, stack, scan, repo_info, exc, calls,
                   outcome, last, parsed>>

InitContent ==
    /\ caller \in {"_extract_files_info", "_scan_repository"}
    /\ file_text \in FileTexts
    /\ content = << >>
    /\ pc = "store"
    /\ url_parts = NoParts
    /\ response = NoReply
    /\ result = NoResult
    /\ git_url = << >>
    /\ github_token = FALSE
    /\ temp_dir = None
    /\ disk = {}
    /\ stack = << >>
    /\ scan = NoScan
    /\ repo_info = NoSnap
    /\ exc = "none"
    /\ calls = NoCalls
    /\ outcome = "none"
    /\ last = [op |-> "none", raised |-> FALSE, streak |-> 0]
    /\ parsed = NoMatch

NextContent == ApiStore \/ ScanStore

SpecContent == InitContent /\ [][NextContent]_vars

\* C19: a file record of either strategy whose text is longer than the cap
\* holds content that ends with the truncation marker and is cap + marker
\* length long; one whose text is within the cap holds the text unchanged.
C19_TruncationMarker ==
    pc = "stored" =>
        IF Len(file_text) > ContentCap
        THEN /\ EndsWith(content, Marker)
             /\ Len(content) = ContentCap + Len(Marker)
        ELSE content = file_text

(***************************************************************************)
(* Further claims about the Response Normalizer                             *)
(***************************************************************************)
\* C12: when json.loads fails, _parse_response returns as explanation the
\* reply exactly as it was passed in (surrounding whitespace and code-fence
\* lines included) and as score the number of the first score match in the
\* reply, or 50 when the reply has none.
C12_FallbackKeepsRawText ==
    (pc = "normalized" /\ ~JsonValid(Prepared(response.text))) =>
        /\ result.kind = "ok"
        /\ result.explanation = EV("str", response.text)
        /\ result.score = Clamp(FallbackScore(Expand(response.text, response.doc)))

\* the document has none of the optional extras
NoExtras(data) ==
    /\ data.table = Absent /\ data.summary = Absent /\ data.strengths = Absent
    /\ data.weaknesses = Absent /\ data.missing = Absent

\* C13: when json.loads succeeds on an unfenced reply holding an object,
\* the score returned is the encoded integer clamped to 0..100, it is 0 when
\* the score key is absent or holds a string, a null or a list, and without
\* optional extras the explanation is the encoded explanation (the fixed
\* placeholder when the key is absent).
C13_StructuredScoreAndExplanation ==
    (/\ pc = "normalized"
     /\ ~StartsWithFence(Strip(response.text))
     /\ JsonValid(Prepared(response.text))
     /\ JsonLoads(Prepared(response.text), response.doc).top = "obj") =>
        /\ result.kind = "ok"
        /\ response.doc.score.k = "int" => result.score = Clamp(response.doc.score.n)
        /\ response.doc.score.k \in {"absent", "str", "null", "list"} => result.score = 0
        /\ (NoExtras(response.doc) /\ response.doc.explanation.k = "str") =>
               result.explanation = response.doc.explanation
        /\ (NoExtras(response.doc) /\ response.doc.explanation.k = "absent") =>
               result.explanation = Placeholder

\* first lines of a fenced reply: the marker with or without a language tag
FenceOpens == {<<FENCE, W("json"), NL>>, <<FENCE, NL>>}

\* the trimmed reply is body between an opening fence line and a closing one
FencedBody(text, body) ==
    \E open \in FenceOpens : Strip(text) = open \o body \o <<NL, FENCE>>

\* C17 (as amended): when the trimmed reply begins with a code-fence
\* marker and has more than 2 lines, _parse_response drops its first and
\* last line before parsing, so a reply that is a body between two fence
\* lines gives what the body alone gives, and a fenced JSON document is
\* loaded; when the trimmed reply has 2 lines or fewer it is parsed
\* unchanged, which json.loads rejects.
C17_DefenceOverTwoLines ==
    (pc = "normalized" /\ StartsWithFence(Strip(response.text))) =>
        /\ \A body \in Bodies :
               FencedBody(response.text, body) =>
                   /\ result = ParseResponseOp([text |-> body, doc |-> response.doc])
                   /\ body = <<JSON>> => JsonValid(Prepared(response.text))
        /\ Len(SplitLines(Strip(response.text))) <= 2 =>
               result = Fallback(Strip(response.text), response.doc)

\* C17 witness: a document between two fence lines, three lines in all, was
\* loaded and gave its score and explanation.
C17_Witness ==
    /\ pc = "normalized"
    /\ response.text = <<FENCE, W("json"), NL, JSON, NL, FENCE>>
    /\ response.doc = Plain(SV("int", 80), EV("str", <<W("Login"), SP, W("present")>>))
    /\ result = Returned(80, EV("str", <<W("Login"), SP, W("present")>>))

\* C17 as stated: a fenced reply of 3 lines or fewer is parsed unchanged,
\* a longer one has its first and last line dropped.
C17_DefenceSkippedUpToThreeLines ==
    (pc = "normalized" /\ StartsWithFence(Strip(response.text))) =>
        /\ \A body \in Bodies :
               (FencedBody(response.text, body)
                    /\ Len(SplitLines(Strip(response.text))) > 3) =>
                   result = ParseResponseOp([text |-> body, doc |-> response.doc])
        /\ Len(SplitLines(Strip(response.text))) <= 3 =>
               result = Fallback(Strip(response.text), response.doc)

\* positions of the token tok in s
Positions(s, tok) == {i \in 1..Len(s) : s[i] = tok}

\* the section keys in the order of the source, each with its heading
SectionTitles ==
    <<TableTitle, SummaryTitle, StrengthsTitle, WeaknessesTitle, MissingTitle>>
SectionValues(data) ==
    <<data.table, data.summary, data.strengths, data.weaknesses, data.missing>>

\* the key is present and its value is not empty
PresentNonEmpty(v) == v.k # "absent" /\ ~(v.k = "list" /\ v.items = << >>)

\* the reply of the end-to-end scenario
ScenarioDoc ==
    [Plain(SV("int", 80), EV("str", <<W("Login"), SP, W("present")>>))
        EXCEPT !.strengths = GoodList, !.weaknesses = EmptyList]

\* C18: when json.loads gives an object, _parse_response returns the
\* encoded explanation followed by one section, in the fixed order, for
\* each of evaluation_table, summary, strengths, weaknesses and
\* missing_features that is present and not empty, and by nothing for the
\* others; for the reply of the end-to-end scenario it returns score 80 and
\* the explanation "Login present\n\nStrengths:\n- login".
C18_SectionsAdditive ==
    (/\ pc = "normalized"
     /\ JsonValid(Prepared(response.text))
     /\ JsonLoads(Prepared(response.text), response.doc).top = "obj"
     /\ IntOf(response.doc.score).raised = "none") =>
        /\ result.kind = "ok"
        /\ response.doc.explanation.k = "str" =>
               SubSeq(result.explanation.s, 1, Len(response.doc.explanation.s))
                   = response.doc.explanation.s
        /\ \A i \in 1..5 :
               Cardinality(Positions(result.explanation.s, SectionTitles[i]))
                   = IF PresentNonEmpty(SectionValues(response.doc)[i]) THEN 1 ELSE 0
        /\ \A i, j \in 1..5 : \A p \in Positions(result.explanation.s, SectionTitles[i]) :
               \A q \in Positions(result.explanation.s, SectionTitles[j]) :
                   i < j => p < q
        /\ response.doc = ScenarioDoc =>
               result = Returned(80, EV("str", <<W("Login"), SP, W("present"), NL, NL,
                                                 L("Strengths:"), NL, L("- "), W("login")>>))
====
